---- MODULE Spec2Model ----
(***************************************************************************)
(* Model of WaypointLocator                                                *)
(* (ros/src/waypoint_locator/modules/location_utils/locator.py).           *)
(*                                                                         *)
(* A position is a pair <<x, y>> of integers; a waypoint is represented by *)
(* its position (the only attribute the code reads).  Python lists are     *)
(* sequences; Python indices are 0-based, so At(l, i) reads l[i].          *)
(* Distances (math.sqrt of an integer) are kept in fixed point: dist2d is  *)
(* the integer part of Scale times the Euclidean distance.  Cosines are    *)
(* kept as exact rationals of the signed squared cosine, which orders      *)
(* them as the real cosines are ordered.                                   *)
(***************************************************************************)
EXTENDS Integers, Sequences, FiniteSets, TLC

\* ---------------------------------------------------------------- bounds
\* longest raw waypoint list drawn in Init (besides the Scenario A lists)
MaxLen == 5
\* the tie-breaking policies of the spatial index are 0..MaxTie
MaxTie == 1
\* fixed-point scale of distances
Scale == 100

\* the loop-closure distance threshold (locator.py line 51)
OverlapDist == 15

\* positions the raw waypoints are drawn from
Points == {<<0, 0>>, <<8, 0>>, <<-8, 6>>, <<-16, 0>>}
\* positions the queries are drawn from
Poses == {<<0, 0>>, <<8, 0>>, <<-8, 6>>, <<10, 0>>, <<10, -5>>, <<4, -3>>}

\* Scenario A: the square twice, then one closing point within 15 of (0,0)
Square == << <<0, 0>>, <<10, 0>>, <<10, 10>>, <<0, 10>> >>
ClosingCandidates == {<<0, 0>>, <<1, 0>>, <<-1, 0>>, <<-3, 4>>, <<3, -4>>, <<0, 14>>, <<-9, -12>>, <<0, -14>>}

VARIABLES base_waypoints, pc, error, all_ref_waypoints, waypoints_frenet_s,
          length_of_track, kdtree, pose, result

vars == <<base_waypoints, pc, error, all_ref_waypoints, waypoints_frenet_s,
          length_of_track, kdtree, pose, result>>

\* ---------------------------------------------------------------- values
\* Python's None, and a value that is not None, for the attributes that
\* start as None
None == <<>>
Some(v) == <<v>>
Val(o) == o[1]

\* l[i] with a Python index
At(l, i) == l[i + 1]

Sub(a, b) == <<a[1] - b[1], a[2] - b[2]>>
\* np.dot of two pairs
Dot(u, v) == u[1] * v[1] + u[2] * v[2]
Norm2(v) == Dot(v, v)

RECURSIVE ISqrt(_)
\* the integer part of the square root
ISqrt(n) ==
    IF n < 2 THEN n
    ELSE LET s == 2 * ISqrt(n \div 4)
         IN  IF (s + 1) * (s + 1) > n THEN s ELSE s + 1

\* dist2d, in units of 1/Scale
dist2d(p1, p2) == ISqrt(Norm2(Sub(p1, p2)) * Scale * Scale)

Sign(x) == IF x > 0 THEN 1 ELSE IF x < 0 THEN -1 ELSE 0

\* get_cos_angle_between: 1 when the product of the norms is 0, else
\* dot / product, kept as the rational num/den of sign(cos) * cos^2
get_cos_angle_between(v1, v2) ==
    LET product2 == Norm2(v1) * Norm2(v2)
    IN  IF product2 = 0
        THEN [num |-> 1, den |-> 1]
        ELSE [num |-> Sign(Dot(v1, v2)) * Dot(v1, v2) * Dot(v1, v2), den |-> product2]

RECURSIVE GCD(_, _)
GCD(a, b) == IF b = 0 THEN a ELSE GCD(b, a % b)

\* ca1 > ca2: the denominators are positive, and their common factor is
\* divided out before cross-multiplying
CosGreater(ca1, ca2) ==
    LET g == GCD(ca1.den, ca2.den)
    IN  ca1.num * (ca2.den \div g) > ca2.num * (ca1.den \div g)

\* ------------------------------------------- deal_base_waypoints_overlap
\* a mutant: the scan also examines the midpoint index len/2
ScanStop_inclusive(n) == n \div 2 - 1

\* range's stop of line 47, len(base_waypoints) / 2 in Python 2 (integer
\* division): the first index the scan does not examine
ScanStop(n) == n \div 2

RECURSIVE ScanEndIdx(_, _)
\* the for loop of lines 47-53 from index i downwards: the first i above
\* the stop that qualifies, or -1
ScanEndIdx(bw, i) ==
    IF i <= ScanStop(Len(bw)) THEN -1
    ELSE IF /\ Dot(Sub(At(bw, 1), At(bw, 0)), Sub(At(bw, i), At(bw, 0))) < 0
            /\ dist2d(At(bw, 0), At(bw, i)) < OverlapDist * Scale
         THEN i
         ELSE ScanEndIdx(bw, i - 1)

\* a mutant: the slice leaves out end_idx itself
deal_base_waypoints_overlap_slice(base_waypoints_arg) ==
    LET end_idx == ScanEndIdx(base_waypoints_arg, Len(base_waypoints_arg) - 1)
    IN  IF end_idx = -1 THEN base_waypoints_arg
        ELSE SubSeq(base_waypoints_arg, 1, end_idx)

\* a mutant: a candidate qualifies when the dot product is <= 0
deal_base_waypoints_overlap_le(base_waypoints_arg) ==
    LET bw == base_waypoints_arg
        Q(m) == /\ Dot(Sub(At(bw, 1), At(bw, 0)), Sub(At(bw, m), At(bw, 0))) <= 0
                /\ dist2d(At(bw, 0), At(bw, m)) < OverlapDist * Scale
        S == {m \in (Len(bw) \div 2 + 1)..(Len(bw) - 1) : Q(m)}
    IN  IF S = {} THEN bw
        ELSE SubSeq(bw, 1, (CHOOSE m \in S : \A o \in S : o <= m) + 1)

\* deal_base_waypoints_overlap for a list of at least 2 waypoints
deal_base_waypoints_overlap(base_waypoints_arg) ==
    LET end_idx == ScanEndIdx(base_waypoints_arg, Len(base_waypoints_arg) - 1)
    IN  IF end_idx = -1 THEN base_waypoints_arg
        ELSE SubSeq(base_waypoints_arg, 1, end_idx + 1)

\* ------------------------------------------------------- __init__'s loop
\* a mutant: s.append runs before total_length is advanced
LoopStep_early(acc, previous_waypoint, waypoint) ==
    LET total == IF previous_waypoint # None
                 THEN acc.total_length + dist2d(Val(previous_waypoint), waypoint)
                 ELSE acc.total_length
    IN  [all_ref_waypoints |-> Append(acc.all_ref_waypoints, waypoint),
         xy_pairs |-> Append(acc.xy_pairs, <<waypoint[1], waypoint[2]>>),
         s |-> Append(acc.s, acc.total_length),
         total_length |-> total]

\* one iteration of the loop of lines 25-32
LoopStep(acc, previous_waypoint, waypoint) ==
    LET total == IF previous_waypoint # None
                 THEN acc.total_length + dist2d(Val(previous_waypoint), waypoint)
                 ELSE acc.total_length
    IN  [all_ref_waypoints |-> Append(acc.all_ref_waypoints, waypoint),
         xy_pairs |-> Append(acc.xy_pairs, <<waypoint[1], waypoint[2]>>),
         s |-> Append(acc.s, total),
         total_length |-> total]

RECURSIVE Loop(_, _)
\* the loop of lines 25-32 over the first m waypoints
Loop(wps, m) ==
    IF m = 0
    THEN [all_ref_waypoints |-> <<>>, xy_pairs |-> <<>>, s |-> <<>>, total_length |-> 0]
    ELSE LoopStep(Loop(wps, m - 1), IF m = 1 THEN None ELSE Some(wps[m - 1]), wps[m])

\* ------------------------------------------------------------ cKDTree
\* cKDTree(xy_pairs): the points in list order.  Which of several equally
\* near points a query returns is the library's choice; it is fixed when
\* the tree is built (tie), so a built tree answers as a function.
cKDTree(xy_pairs, tie) == [data |-> xy_pairs, tie |-> tie]

\* the indices nearest to p
NearestSet(kd, p) ==
    {j \in 0..(Len(kd.data) - 1) :
        \A m \in 0..(Len(kd.data) - 1) :
            Norm2(Sub(At(kd.data, j), p)) <= Norm2(Sub(At(kd.data, m), p))}

\* a mutant: the query always answers index 0
kdtree_query_zero(kd, p) == 0

\* kdtree.query(p)[1]: one of the nearest indices, picked by the tree's tie
kdtree_query(kd, p) ==
    LET C == NearestSet(kd, p)
    IN  CHOOSE j \in C : Cardinality({c \in C : c < j}) = kd.tie % Cardinality(C)

\* ------------------------------------------------ locate_waypoints_around
\* lines 73-74
WrapK(k, n) == IF k >= n THEN k - n ELSE k

\* a mutant: the wrapped predecessor is one short of the last index
WrapI_short(i, n) == IF i < 0 THEN i + n - 1 ELSE i

\* lines 71-72
WrapI(i, n) == IF i < 0 THEN i + n ELSE i

\* a mutant: the predecessor and the successor are returned as behind, ahead
Select_neighbors(ca1, ca2, i, j, k) == <<j, i, k>>

\* a mutant: the comparison is reversed
Select_reversed(ca1, ca2, i, j, k) ==
    IF CosGreater(ca2, ca1) THEN <<j, i, j>> ELSE <<j, j, k>>

\* line 87: (ca1 > ca2) and (j, i, j) or (j, j, k); (j, i, j) is a non-empty
\* tuple, so the and/or idiom is a conditional
Select(ca1, ca2, i, j, k) ==
    IF CosGreater(ca1, ca2) THEN <<j, i, j>> ELSE <<j, j, k>>

\* locate_waypoints_around: <<nearest, behind, ahead>>
locate_waypoints_around(arw, kd, p) ==
    LET num_all_ref_waypoints == Len(arw)
        closest_index == kdtree_query(kd, p)
        j == closest_index
        i == WrapI(closest_index - 1, num_all_ref_waypoints)
        k == WrapK(closest_index + 1, num_all_ref_waypoints)
        v_j_i == Sub(At(arw, i), At(arw, j))
        v_j_k == Sub(At(arw, k), At(arw, j))
        v_j_p == Sub(p, At(arw, j))
        ca1 == get_cos_angle_between(v_j_p, v_j_i)
        ca2 == get_cos_angle_between(v_j_p, v_j_k)
    IN  Select(ca1, ca2, i, j, k)

\* ---------------------------------------------------------------- state
ScenarioA == {Square \o Square \o <<c>> :
                 c \in {c \in ClosingCandidates : dist2d(<<0, 0>>, c) < 15 * Scale}}

RawLists == UNION {[1..n -> Points] : n \in 0..MaxLen}

\* before the constructor is called with base_waypoints
Init ==
    /\ base_waypoints \in RawLists \cup ScenarioA
    /\ pc = "new"
    /\ error = "none"
    /\ all_ref_waypoints = None
    /\ waypoints_frenet_s = <<>>
    /\ length_of_track = 0
    /\ kdtree = None
    /\ pose = None
    /\ result = None

\* a mutant: the constructor rejects fewer than 3 waypoints
ConstructRaises_three == Len(base_waypoints) < 3

\* base_waypoints[0] or base_waypoints[1] (lines 43-44) raises IndexError
ConstructRaises == Len(base_waypoints) < 2

\* __init__ (lines 10-38)
Construct ==
    /\ pc = "new"
    /\ IF ConstructRaises
       THEN /\ pc' = "raised"
            /\ error' = "IndexError"
            /\ all_ref_waypoints' = None
            /\ waypoints_frenet_s' = <<>>
            /\ length_of_track' = 0
            /\ kdtree' = None
       ELSE LET trimmed == deal_base_waypoints_overlap(base_waypoints)
                built == Loop(trimmed, Len(trimmed))
            IN  /\ pc' = "ready"
                /\ error' = "none"
                /\ waypoints_frenet_s' = built.s
                /\ length_of_track' = built.total_length
                /\ \E tie \in 0..MaxTie : kdtree' = Some(cKDTree(built.xy_pairs, tie))
                /\ all_ref_waypoints' = Some(built.all_ref_waypoints)
    /\ UNCHANGED <<base_waypoints, pose, result>>

\* a mutant: the query uses length_of_track as scratch
Locate_scratch(p) ==
    /\ pc = "ready"
    /\ pose' = p
    /\ result' = locate_waypoints_around(Val(all_ref_waypoints), Val(kdtree), p)
    /\ length_of_track' = 0
    /\ UNCHANGED <<base_waypoints, pc, error, all_ref_waypoints, waypoints_frenet_s, kdtree>>

\* locate_waypoints_around(pose) on a constructed locator (lines 61-88)
Locate(p) ==
    /\ pc = "ready"
    /\ pose' = p
    /\ result' = locate_waypoints_around(Val(all_ref_waypoints), Val(kdtree), p)
    /\ UNCHANGED <<base_waypoints, pc, error, all_ref_waypoints, waypoints_frenet_s,
                   length_of_track, kdtree>>

Query == \E p \in Poses : Locate(p)

Next == Construct \/ Query

Spec == Init /\ [][Next]_vars

\* ---------------------------------------------------------------- claims
Ready == pc = "ready"
Answered == result # None
Path == Val(all_ref_waypoints)
N == Len(Path)
RawLen == Len(base_waypoints)
Truncated == Ready /\ N < RawLen

\* C1 as stated: on a path of n >= 3 waypoints, behind and ahead are the two
\* path-order neighbors (nearest - 1) mod n and (nearest + 1) mod n of nearest.
C1_BothNeighbors ==
    (Ready /\ Answered /\ N >= 3) =>
        {result[2], result[3]} = {(result[1] - 1) % N, (result[1] + 1) % N}

\* C1 as amended: on a path of n >= 3 waypoints, (behind, ahead) is either
\* ((nearest - 1) mod n, nearest) or (nearest, (nearest + 1) mod n): nearest
\* itself and exactly one of its two path-order neighbors, never another index.
C1_NearestAndOneNeighbor ==
    (Ready /\ Answered /\ N >= 3) =>
        <<result[2], result[3]>> \in
            {<<(result[1] - 1) % N, result[1]>>, <<result[1], (result[1] + 1) % N>>}

C1_Witness ==
    /\ Ready /\ Answered /\ N >= 3
    /\ result[1] = 0 /\ result[2] = N - 1 /\ result[3] = 0

\* C2: for a raw list of at least 3 waypoints, waypoints_frenet_s has one
\* entry per waypoint of the constructed path, starts at 0, grows by the
\* distance between consecutive waypoints (so never decreases), and ends at
\* length_of_track.
C2_ArcLength ==
    (Ready /\ RawLen >= 3) =>
        /\ Len(waypoints_frenet_s) = N
        /\ waypoints_frenet_s[1] = 0
        /\ \A m \in 1..(N - 1) :
              /\ waypoints_frenet_s[m + 1] = waypoints_frenet_s[m] + dist2d(Path[m], Path[m + 1])
              /\ waypoints_frenet_s[m + 1] >= waypoints_frenet_s[m]
        /\ waypoints_frenet_s[N] = length_of_track

C2_Witness ==
    /\ Truncated /\ RawLen >= 3
    /\ \E m \in 1..(N - 1) : waypoints_frenet_s[m + 1] = waypoints_frenet_s[m]
    /\ length_of_track > waypoints_frenet_s[N - 1]

\* C3 as stated: a query at exactly the position of waypoint j of the
\* constructed path returns nearest = j, for every j.
C3_NearestIsJ ==
    (Ready /\ Answered /\ RawLen >= 3) =>
        \A j \in 0..(N - 1) : At(Path, j) = pose => result[1] = j

\* C3 as amended: a query at exactly the position of waypoint j returns as
\* nearest an index whose waypoint has that same position; it is j whenever no
\* other waypoint of the path shares the position of waypoint j.
C3_NearestAtSamePosition ==
    (Ready /\ Answered /\ RawLen >= 3) =>
        \A j \in 0..(N - 1) : At(Path, j) = pose =>
            /\ At(Path, result[1]) = pose
            /\ (\A m \in 0..(N - 1) : At(Path, m) = pose => m = j) => result[1] = j

C3_Witness ==
    /\ Truncated /\ Answered /\ RawLen >= 3
    /\ At(Path, result[1]) = pose
    /\ \A m \in 0..(N - 1) : At(Path, m) = pose => m = result[1]
    /\ result[1] > 0

\* C4 as stated (Scenario A): the square twice followed by a closing point
\* within 15 of (0,0) is trimmed to the 4 corners, with length_of_track = 40.
C4_TrimmedToSquare ==
    (Ready /\ base_waypoints \in ScenarioA) =>
        /\ Path = Square
        /\ length_of_track = 40 * Scale

\* C4 as amended (Scenario A): the list is not shortened (only indices 8 down
\* to 5 are examined, and only the closing point at index 8 can qualify): the
\* path keeps all 9 waypoints and length_of_track = 70 + the distance from
\* (0,10) to the closing point.
C4_ScenarioAKept ==
    (Ready /\ base_waypoints \in ScenarioA) =>
        /\ Path = base_waypoints
        /\ N = 9
        /\ length_of_track = 70 * Scale + dist2d(<<0, 10>>, base_waypoints[9])

C4_Witness ==
    /\ Ready /\ base_waypoints \in ScenarioA
    /\ base_waypoints[9][1] < 0
    /\ N = 9

\* C5 as stated: construction from fewer than 3 waypoints always fails and
\* never yields a locator that can be queried.
C5_ShortInputFails ==
    (pc # "new" /\ RawLen < 3) => pc = "raised"

\* C5 as amended: construction from 0 or 1 waypoints fails with an IndexError
\* (no dedicated error) with the attributes still None, [], 0, None and no
\* query answered; construction from exactly 2 waypoints succeeds and yields
\* a 2-waypoint path with its arc lengths and index, which can be queried.
C5_ShortInput ==
    (pc # "new" /\ RawLen < 3) =>
        IF RawLen < 2
        THEN /\ pc = "raised" /\ error = "IndexError"
             /\ all_ref_waypoints = None /\ kdtree = None
             /\ waypoints_frenet_s = <<>> /\ length_of_track = 0
             /\ result = None
        ELSE /\ pc = "ready" /\ error = "none"
             /\ Path = base_waypoints
             /\ Len(waypoints_frenet_s) = 2
             /\ kdtree # None

C5_Witness ==
    /\ Ready /\ RawLen = 2 /\ Answered
    /\ result[1] \in {0, 1}

\* C6: trimming is idempotent: for a raw list L of at least 3 waypoints,
\* trimming the trimmed list returns it unchanged, and constructing again
\* from the trimmed list gives the same waypoints, arc lengths and length.
C6_TrimIdempotent ==
    (Ready /\ RawLen >= 3) =>
        LET t == deal_base_waypoints_overlap(base_waypoints)
            again == deal_base_waypoints_overlap(t)
            rebuilt == Loop(again, Len(again))
        IN  /\ again = t
            /\ rebuilt.all_ref_waypoints = Path
            /\ rebuilt.s = waypoints_frenet_s
            /\ rebuilt.total_length = length_of_track

C6_Witness ==
    /\ Truncated /\ RawLen >= 3
    /\ deal_base_waypoints_overlap(Path) = Path

\* C7: a query on a constructed locator leaves all_ref_waypoints,
\* waypoints_frenet_s, length_of_track and the spatial index unchanged, its
\* result is determined by them and the query position, and asking the same
\* position again gives the same result.
C7_QueriesReadOnly ==
    [][Ready =>
          /\ UNCHANGED <<all_ref_waypoints, waypoints_frenet_s, length_of_track, kdtree>>
          /\ pc' = "ready"
          /\ result' = locate_waypoints_around(Path, Val(kdtree), pose')
          /\ (pose' = pose => result' = result)]_vars

C7_Witness ==
    /\ Ready /\ Answered
    /\ Cardinality(NearestSet(Val(kdtree), pose)) > 1
    /\ Val(kdtree).tie = 1

\* waypoint i of the raw list l qualifies as the closing point
Qualifies(l, i) ==
    /\ Dot(Sub(l[2], l[1]), Sub(l[i + 1], l[1])) < 0
    /\ Norm2(Sub(l[i + 1], l[1])) < OverlapDist * OverlapDist

\* the prefix up to the largest qualifying index in lo..len-1, or all of l
PrefixToLargest(l, lo) ==
    LET S == {i \in lo..(Len(l) - 1) : Qualifies(l, i)}
    IN  IF S = {} THEN l
        ELSE SubSeq(l, 1, (CHOOSE i \in S : \A o \in S : o <= i) + 1)

\* C8 as stated: the candidates are n-1 down to floor(n/2) inclusive; the
\* path is the prefix [0..i] for the largest qualifying candidate i, or the
\* whole list.
C8_MidpointInclusive ==
    (Ready /\ RawLen >= 3) => Path = PrefixToLargest(base_waypoints, RawLen \div 2)

\* C8 as amended: the candidates are n-1 down to floor(n/2) + 1; the midpoint
\* index floor(n/2) itself is never examined.  The path is the prefix [0..i]
\* for the largest qualifying candidate i, or the whole list.
C8_MidpointExclusive ==
    (Ready /\ RawLen >= 3) => Path = PrefixToLargest(base_waypoints, RawLen \div 2 + 1)

C8_Witness ==
    /\ Truncated /\ RawLen >= 3
    /\ Qualifies(base_waypoints, RawLen \div 2)
    /\ Qualifies(base_waypoints, N - 1)

\* cos(p, a) > cos(p, b) for real cosines, a cosine against a zero vector
\* being 1
CosineCloser(p, a, b) ==
    LET x == Dot(p, a)
        y == Dot(p, b)
    IN  IF Norm2(p) = 0 \/ Norm2(a) = 0
        THEN /\ Norm2(p) # 0 /\ Norm2(b) # 0
             /\ ~(p[1] * b[2] - p[2] * b[1] = 0 /\ y > 0)
        ELSE IF Norm2(b) = 0 THEN FALSE
        ELSE IF x > 0 /\ y > 0 THEN x * x * Norm2(b) > y * y * Norm2(a)
        ELSE IF x < 0 /\ y < 0 THEN x * x * Norm2(b) < y * y * Norm2(a)
        ELSE x > y

\* C9: with j the nearest index, i = (j-1) mod n, k = (j+1) mod n, the result
\* is (j, i, j) exactly when ca1 > ca2 and (j, j, k) otherwise; a query at
\* exactly waypoint j returns (j, j, k).
C9_CosineRule ==
    (Ready /\ Answered) =>
        LET j == result[1]
            i == (j - 1) % N
            k == (j + 1) % N
            closer == CosineCloser(Sub(pose, At(Path, j)), Sub(At(Path, i), At(Path, j)),
                                   Sub(At(Path, k), At(Path, j)))
        IN  /\ j \in 0..(N - 1)
            /\ \A m \in 0..(N - 1) :
                  Norm2(Sub(At(Path, j), pose)) <= Norm2(Sub(At(Path, m), pose))
            /\ result = IF closer THEN <<j, i, j>> ELSE <<j, j, k>>
            /\ closer <=> result[2] # j
            /\ pose = At(Path, j) => result = <<j, j, k>>

C9_Witness ==
    /\ Ready /\ Answered /\ N >= 3
    /\ At(Path, result[2]) = At(Path, result[1])
    /\ pose # At(Path, result[1])
    /\ result[2] = (result[1] - 1) % N
    /\ result[3] = result[1]

\* C10: nearest, behind and ahead are indices of the path, ahead follows
\* behind in path order (with wraparound), and nearest is one of the two.
C10_Consecutive ==
    (Ready /\ Answered) =>
        /\ {result[1], result[2], result[3]} \subseteq 0..(N - 1)
        /\ result[3] = (result[2] + 1) % N
        /\ result[1] \in {result[2], result[3]}

C10_Witness ==
    /\ Ready /\ Answered /\ N >= 3
    /\ result[1] = N - 1 /\ result[2] = N - 1 /\ result[3] = 0

====
